---- MODULE Spec2Model ----
(***************************************************************************)
(* The gym coaching backend: the corpus indexer (ingest.py), the retriever  *)
(* (retriever.py), the workout-plan storage and the retrying store queries *)
(* of the web application (app.py) and the response cache                  *)
(* (cache_manager.py).                                                     *)
(*                                                                         *)
(* A text is a sequence of symbols.  A symbol is a one-character string;   *)
(* the string literals of the source that are never looked into (the       *)
(* fallback sentences) are held as one symbol each.                        *)
(***************************************************************************)
EXTENDS Integers, Sequences, FiniteSets, TLC

VARIABLES
    folder,         \* per domain, the files of its source folder
    disk_index,     \* per domain, data/<domain>.index on disk
    disk_txt,       \* per domain, data/<domain>.txt on disk
    workout_index,  \* retriever.py module global
    nutrition_index,\* retriever.py module global
    ipc,            \* position of the ingest_files call in its code
    idom,           \* the domain the running ingest_files call was given
    todo,           \* files of os.listdir() the loop has not visited yet
    file_name,      \* local `file_name`: the file being processed
    chunks,         \* local `chunks` of the file being processed
    ci,             \* 1-based position of the loop over `chunks`
    texts,          \* local `texts`
    embeddings,     \* local `embeddings`
    log,            \* history: every chunk the run tried to embed, with the outcome
    disk0,          \* history: the two output files as the run found them
    io_error,       \* the I/O operation of the ingest_files call that raised, "" if none
    thr,            \* per thread of the serving process: the retrieve call it is in
    ret,            \* record of the last retrieve_* call and what it gave its caller
    ct_n,           \* chunk_text harness: number of words of the document
    ct_style,       \* chunk_text harness: how the document separates its words
    ct_text,        \* chunk_text harness: the argument `text`
    ct_out,         \* chunk_text harness: the returned list
    ct_pc,          \* chunk_text harness: "call" before, "done" after
    supabase,       \* app.py module global: TRUE when a Supabase client was made
    workout_plans,  \* the rows of the Supabase table workout_plans
    next_id,        \* the id the table gives its next row
    sb,             \* record of the last store_workout_plan_in_supabase call
    fallback_profiles, \* app.py module global
    fallback_file,  \* fallback_profiles.json on disk
    now,            \* the clock read by datetime.now()
    fb_kept,        \* history: per user, the plans stored since the last "update"
    ep,             \* record of the last /api/save-workout-plan response
    rq,             \* the get_user_profile / check_existing_workout_plans call under way
    cache_files,    \* ResponseCache: the file of each cache key in cache_dir
    cache_put,      \* history: the last response stored for each message, and whether its file was lost
    cr              \* record of the last call of a ResponseCache method

ingVars == <<ipc, idom, todo, file_name, chunks, ci, texts, embeddings, log, disk0, io_error>>
diskVars == <<disk_index, disk_txt>>
memVars == <<workout_index, nutrition_index>>
ctVars == <<ct_n, ct_style, ct_text, ct_out, ct_pc>>
ragVars == <<folder, diskVars, memVars, ingVars, ret, thr, ctVars>>
sbVars == <<workout_plans, next_id, sb>>
fbVars == <<fallback_profiles, fallback_file, fb_kept>>
storeVars == <<supabase, sbVars, fbVars, ep>>
cacheVars == <<cache_files, cache_put, cr>>
appVars == <<storeVars, now, rq, cacheVars>>
vars == <<ragVars, appVars>>

----------------------------------------------------------------------------
(* Bounds of the model *)

\* largest top_k a retrieve call is given
MaxTopK == 3
\* largest number of words of a document handed to chunk_text on its own
MaxWords == 1001
\* number of words of the long source file of the indexing runs
LongWords == 501
\* the length, in words, of the file of the two-full-chunks example
ExampleWords == 1000
\* number of plans the application stores in the fallback store in one run
MaxStores == 12
\* number of the first requests of one run that may be of the second user
MaxOtherStores == 2
\* number of rows the workout_plans table is given in one run
MaxRows == 3

----------------------------------------------------------------------------
(* Python built-ins on texts *)

\* str.isspace() of one character, for the characters the model's texts hold
IsSpace(c) == c \in {" ", "\n", "\t", "\r"}

Min2(a, b) == IF a < b THEN a ELSE b

\* ss[lo] + ss[lo+1] + ... + ss[hi]  (list / str concatenation)
RECURSIVE ConcatRange(_, _, _)
ConcatRange(ss, lo, hi) ==
    IF lo > hi THEN <<>>
    ELSE IF lo = hi THEN ss[lo]
    ELSE LET mid == (lo + hi) \div 2
         IN  ConcatRange(ss, lo, mid) \o ConcatRange(ss, mid + 1, hi)

Concat(ss) == ConcatRange(ss, 1, Len(ss))

\* seq[i:j] with Python's clamping of the bounds (0-based, j exclusive, 0 <= i)
PySlice(seq, i, j) == SubSeq(seq, i + 1, Min2(j, Len(seq)))

\* list(range(0, n, step))
PyRange0(n, step) == [k \in 1..((n + step - 1) \div step) |-> (k - 1) * step]

\* sep.join(words)
Join(sep, words) ==
    Concat([k \in 1..Len(words) |-> IF k = 1 THEN words[k] ELSE sep \o words[k]])

\* the words of text[lo..hi]: maximal runs of non-whitespace characters
RECURSIVE SplitRange(_, _, _)
SplitRange(text, lo, hi) ==
    IF lo > hi THEN <<>>
    ELSE IF lo = hi THEN (IF IsSpace(text[lo]) THEN <<>> ELSE << <<text[lo]>> >>)
    ELSE LET mid == (lo + hi) \div 2
             L == SplitRange(text, lo, mid)
             R == SplitRange(text, mid + 1, hi)
         IN  IF IsSpace(text[mid]) \/ IsSpace(text[mid + 1])
             THEN L \o R
             ELSE \* a word runs across the middle
                  SubSeq(L, 1, Len(L) - 1) \o << L[Len(L)] \o R[1] >> \o Tail(R)

\* text.split(): split on runs of whitespace, no empty words
split(text) == SplitRange(text, 1, Len(text))

\* text.strip()
strip(text) ==
    LET keep == {i \in 1..Len(text) : ~IsSpace(text[i])}
    IN  IF keep = {} THEN <<>>
        ELSE LET first == CHOOSE i \in keep : \A j \in 1..(i - 1) : IsSpace(text[j])
                 last  == CHOOSE i \in keep : \A j \in (i + 1)..Len(text) : IsSpace(text[j])
             IN  SubSeq(text, first, last)

\* the lines of data[lo..hi], each kept with its newline
RECURSIVE LinesRange(_, _, _)
LinesRange(data, lo, hi) ==
    IF lo > hi THEN <<>>
    ELSE IF lo = hi THEN << <<data[lo]>> >>
    ELSE LET mid == (lo + hi) \div 2
             L == LinesRange(data, lo, mid)
             R == LinesRange(data, mid + 1, hi)
         IN  IF data[mid] = "\n"
             THEN L \o R
             ELSE SubSeq(L, 1, Len(L) - 1) \o << L[Len(L)] \o R[1] >> \o Tail(R)

\* f.readlines() of a file holding `data`
readlines(data) == LinesRange(data, 1, Len(data))

\* lines[i] of Python, i may be negative; the IndexError case is PyInRange false
PyInRange(seq, i) == -Len(seq) <= i /\ i < Len(seq)

PyIndex(seq, i) == IF i >= 0 THEN seq[i + 1] ELSE seq[Len(seq) + i + 1]

----------------------------------------------------------------------------
(* ingest.py: chunk_text *)

chunk_size_default == 500

chunk_text_overlap(text, chunk_size) ==
    LET words == split(text)
        starts == PyRange0(Len(words), chunk_size)
    IN  [k \in 1..Len(starts) |->
            Join(<<" ">>, PySlice(words, starts[k], starts[k] + chunk_size + 1))]

chunk_text(text, chunk_size) ==
    LET words == split(text)
        starts == PyRange0(Len(words), chunk_size)
    IN  [k \in 1..Len(starts) |->
            Join(<<" ">>, PySlice(words, starts[k], starts[k] + chunk_size))]

----------------------------------------------------------------------------
(* The environment: source folders, the embedding service, the files on disk *)

Domains == {"workout", "nutrition"}

\* the k-th word of a generated document: "a", "bc", "d", "a", ...
Word(k) == CASE k % 3 = 1 -> <<"a">>
             [] k % 3 = 2 -> <<"b", "c">>
             [] OTHER     -> <<"d">>

WordsOf(n) == [k \in 1..n |-> Word(k)]

Styles == {"spaces", "mixed"}

\* a document of n words: "spaces" puts one blank between two words, "mixed"
\* starts with a blank line, alternates newline and two blanks between words
\* and ends with a newline
Doc(n, style) ==
    IF style = "spaces"
    THEN Join(<<" ">>, WordsOf(n))
    ELSE <<" ", "\n">>
         \o Concat([k \in 1..n |-> Word(k) \o (IF k % 2 = 1 THEN <<"\n">> ELSE <<" ", " ">>)])

PlanTxt  == [name |-> "plan",  ext |-> ".txt", pages |-> << <<"a", " ", "a", "\n", "b">> >>]
GuidePdf == [name |-> "guide", ext |-> ".pdf",
             pages |-> << <<"b", "\n">>, <<" ", "b", "\t", "a", "\n">> >>]
PhotoJpg == [name |-> "photo", ext |-> ".jpg", pages |-> << <<"a">> >>]
EmptyTxt == [name |-> "empty", ext |-> ".txt", pages |-> << <<>> >>]
NotesTxt == [name |-> "notes", ext |-> ".txt", pages |-> << <<"a", "\n", "b", "\n">> >>]
LongTxt  == [name |-> "long",  ext |-> ".txt", pages |-> << Doc(LongWords, "mixed") >>]

ExampleTxt == [name |-> "example", ext |-> ".txt", pages |-> << Doc(ExampleWords, "spaces") >>]

\* the corpus of the serving scenarios: two one-chunk files
SmallCorpus == {PlanTxt, GuidePdf}
\* the corpus of the indexing scenarios: a file of two chunks among others
LongCorpus == {LongTxt, NotesTxt, EmptyTxt, PhotoJpg}
\* a text file of two full chunks next to a picture
ExampleCorpus == {ExampleTxt, PhotoJpg}

\* the texts retrieve_* is asked about
Queries == { <<"a">>, <<"a", " ", "b">> }

Count(text, c) == Cardinality({i \in 1..Len(text) : text[i] = c})

\* the embedding service, when it answers: a fixed vector per text
\* (the 768 floats are two integers here)
Embed(text) == <<Count(text, "a"), Count(text, "b")>>

\* squared L2 distance, what IndexFlatL2.search reports
Dist(u, v) == (u[1] - v[1]) * (u[1] - v[1]) + (u[2] - v[2]) * (u[2] - v[2])

NoFile == [exists |-> FALSE, valid |-> FALSE, vecs |-> <<>>]
CorruptFile == [exists |-> TRUE, valid |-> FALSE, vecs |-> <<>>]
IndexFile(vs) == [exists |-> TRUE, valid |-> TRUE, vecs |-> vs]
NoTxt == [exists |-> FALSE, data |-> <<>>]
TxtFile(d) == [exists |-> TRUE, data |-> d]

----------------------------------------------------------------------------
(* ingest.py: extraction *)

\* text += page.get_text() over the pages
extract_text_from_pdf(f) == Concat(f.pages)

\* f.read()
extract_text_from_txt(f) == f.pages[1]

----------------------------------------------------------------------------
(* ingest.py: ingest_files, one call at a time.  ipc is "idle" before the   *)
(* first call, "files" at the head of the loop over os.listdir(), "embed"  *)
(* at the head of the loop over the chunks of a file, "write_txt" between  *)
(* the two output files, "done" when the call has returned, "raised" when  *)
(* it has ended with an exception.                                         *)

\* the call: dimension, index, texts, embeddings = [], []; os.listdir(folder_path).
\* The listing order is the file system's: the loop takes the files in any order.
IngestStart(d) ==
    /\ ipc \in {"idle", "done", "raised"}
    /\ ipc' = "files"
    /\ idom' = d
    /\ todo' = folder[d]
    /\ file_name' = ""
    /\ chunks' = <<>>
    /\ ci' = 1
    /\ texts' = <<>>
    /\ embeddings' = <<>>
    /\ log' = <<>>
    /\ disk0' = [index |-> disk_index[d], txt |-> disk_txt[d]]
    /\ io_error' = ""
    /\ UNCHANGED <<appVars, folder, thr, diskVars, memVars, ret, ctVars>>

\* a plausible slip: `else` for `elif file_name.endswith(".txt")`, so that every
\* file that is no PDF is read as text
IngestNextFile_ReadAnything ==
    /\ ipc = "files"
    /\ \E f \in todo :
        /\ todo' = todo \ {f}
        /\ file_name' = f.name
        /\ ci' = 1
        /\ IF f.ext = ".pdf"
           THEN chunks' = chunk_text(extract_text_from_pdf(f), chunk_size_default)
           ELSE chunks' = chunk_text(extract_text_from_txt(f), chunk_size_default)
        /\ ipc' = IF chunks' = <<>> THEN "files" ELSE "embed"
    /\ UNCHANGED <<appVars, folder, thr, io_error, diskVars, memVars, ret, ctVars,
                   idom, texts, embeddings, log, disk0>>

\* one turn of the loop over the files, up to the loop over its chunks
IngestNextFile ==
    /\ ipc = "files"
    /\ \E f \in todo :
        /\ todo' = todo \ {f}
        /\ file_name' = f.name
        /\ ci' = 1
        /\ IF f.ext = ".pdf"
           THEN chunks' = chunk_text(extract_text_from_pdf(f), chunk_size_default)
           ELSE IF f.ext = ".txt"
           THEN chunks' = chunk_text(extract_text_from_txt(f), chunk_size_default)
           ELSE chunks' = <<>>    \* continue
        /\ ipc' = IF chunks' = <<>> THEN "files" ELSE "embed"
    /\ UNCHANGED <<appVars, folder, thr, io_error, diskVars, memVars, ret, ctVars,
                   idom, texts, embeddings, log, disk0>>

\* a plausible slip: the text is appended outside the try block
IngestEmbedChunk_TextAnyway ==
    /\ ipc = "embed"
    /\ \E ok \in BOOLEAN :
        /\ embeddings' = IF ok THEN Append(embeddings, Embed(chunks[ci])) ELSE embeddings
        /\ texts' = Append(texts, chunks[ci])
        /\ log' = Append(log, [file |-> file_name, pos |-> ci, text |-> chunks[ci], ok |-> ok])
    /\ ci' = ci + 1
    /\ ipc' = IF ci = Len(chunks) THEN "files" ELSE "embed"
    /\ UNCHANGED <<appVars, folder, thr, io_error, diskVars, memVars, ret, ctVars, idom, todo, file_name, chunks, disk0>>

\* a plausible slip: the first failure ends the loop over the file (break for continue)
IngestEmbedChunk_Break ==
    /\ ipc = "embed"
    /\ \E ok \in BOOLEAN :
        /\ embeddings' = IF ok THEN Append(embeddings, Embed(chunks[ci])) ELSE embeddings
        /\ texts' = IF ok THEN Append(texts, chunks[ci]) ELSE texts
        /\ log' = Append(log, [file |-> file_name, pos |-> ci, text |-> chunks[ci], ok |-> ok])
        /\ ipc' = IF ci = Len(chunks) \/ ~ok THEN "files" ELSE "embed"
    /\ ci' = ci + 1
    /\ UNCHANGED <<appVars, folder, thr, io_error, diskVars, memVars, ret, ctVars, idom, todo, file_name, chunks, disk0>>

\* one turn of the loop over the chunks: the embedding request answers (ok) or
\* raises, and the except clause goes on to the next chunk
IngestEmbedChunk ==
    /\ ipc = "embed"
    /\ \E ok \in BOOLEAN :
        /\ embeddings' = IF ok THEN Append(embeddings, Embed(chunks[ci])) ELSE embeddings
        /\ texts' = IF ok THEN Append(texts, chunks[ci]) ELSE texts
        /\ log' = Append(log, [file |-> file_name, pos |-> ci, text |-> chunks[ci], ok |-> ok])
    /\ ci' = ci + 1
    /\ ipc' = IF ci = Len(chunks) THEN "files" ELSE "embed"
    /\ UNCHANGED <<appVars, folder, thr, io_error, diskVars, memVars, ret, ctVars, idom, todo, file_name, chunks, disk0>>

\* a plausible slip: no test of `embeddings` before writing
IngestWriteIndex_Always ==
    /\ ipc = "files"
    /\ todo = {}
    /\ disk_index' = [disk_index EXCEPT ![idom] = IndexFile(embeddings)]
    /\ ipc' = "write_txt"
    /\ UNCHANGED <<appVars, folder, thr, io_error, disk_txt, memVars, ret, ctVars,
                   idom, todo, file_name, chunks, ci, texts, embeddings, log, disk0>>

\* after the loop: `if embeddings:` index.add and faiss.write_index, else pass
IngestWriteIndex ==
    /\ ipc = "files"
    /\ todo = {}
    /\ IF embeddings # <<>>
       THEN /\ disk_index' = [disk_index EXCEPT ![idom] = IndexFile(embeddings)]
            /\ ipc' = "write_txt"
       ELSE /\ disk_index' = disk_index
            /\ ipc' = "done"
    /\ UNCHANGED <<appVars, folder, thr, io_error, disk_txt, memVars, ret, ctVars,
                   idom, todo, file_name, chunks, ci, texts, embeddings, log, disk0>>

\* what open(..., "w") and the f.write(t + "\n") of every text leave in the file
TxtContent(ts) == Concat([k \in 1..Len(ts) |-> ts[k] \o <<"\n">>])

\* a plausible slip: the text file opened with "a" for "w"
IngestWriteTxt_Append ==
    /\ ipc = "write_txt"
    /\ disk_txt' = [disk_txt EXCEPT ![idom] = TxtFile(disk_txt[idom].data \o TxtContent(texts))]
    /\ ipc' = "done"
    /\ UNCHANGED <<appVars, folder, thr, io_error, disk_index, memVars, ret, ctVars,
                   idom, todo, file_name, chunks, ci, texts, embeddings, log, disk0>>

IngestWriteTxt ==
    /\ ipc = "write_txt"
    /\ disk_txt' = [disk_txt EXCEPT ![idom] = TxtFile(TxtContent(texts))]
    /\ ipc' = "done"
    /\ UNCHANGED <<appVars, folder, thr, io_error, disk_index, memVars, ret, ctVars,
                   idom, todo, file_name, chunks, ci, texts, embeddings, log, disk0>>

IngestStep ==
    \/ \E d \in Domains : IngestStart(d)
    \/ IngestNextFile
    \/ IngestEmbedChunk
    \/ IngestWriteIndex
    \/ IngestWriteTxt

----------------------------------------------------------------------------
(* ingest.py: ingest_files when an I/O operation raises.  None of them is   *)
(* inside a try block, so the exception ends the call.                     *)

\* os.listdir(folder_path) raises (the folder cannot be read)
IngestListFails(d) ==
    /\ ipc \in {"idle", "done", "raised"}
    /\ ipc' = "raised"
    /\ io_error' = "listdir"
    /\ idom' = d
    /\ todo' = {}
    /\ file_name' = ""
    /\ chunks' = <<>>
    /\ ci' = 1
    /\ texts' = <<>>
    /\ embeddings' = <<>>
    /\ log' = <<>>
    /\ disk0' = [index |-> disk_index[d], txt |-> disk_txt[d]]
    /\ UNCHANGED <<appVars, folder, thr, diskVars, memVars, ret, ctVars>>

\* a plausible slip: the extraction inside the try block whose except goes on
IngestExtractFails_Swallowed ==
    /\ ipc = "files"
    /\ \E f \in todo :
        /\ f.ext \in {".pdf", ".txt"}
        /\ todo' = todo \ {f}
        /\ file_name' = f.name
    /\ io_error' = "read"
    /\ UNCHANGED <<appVars, folder, thr, diskVars, memVars, ret, ctVars,
                   ipc, idom, chunks, ci, texts, embeddings, log, disk0>>

\* extract_text_from_pdf / extract_text_from_txt raises on a file of the folder
IngestExtractFails ==
    /\ ipc = "files"
    /\ \E f \in todo :
        /\ f.ext \in {".pdf", ".txt"}
        /\ todo' = todo \ {f}
        /\ file_name' = f.name
    /\ ipc' = "raised"
    /\ io_error' = "read"
    /\ UNCHANGED <<appVars, folder, thr, diskVars, memVars, ret, ctVars,
                   idom, chunks, ci, texts, embeddings, log, disk0>>

\* faiss.write_index raises: the index file is as it was, or holds a part of
\* the new index, which is no index
IngestWriteIndexFails ==
    /\ ipc = "files"
    /\ todo = {}
    /\ embeddings # <<>>
    /\ \E left \in {disk_index[idom], CorruptFile} :
          disk_index' = [disk_index EXCEPT ![idom] = left]
    /\ ipc' = "raised"
    /\ io_error' = "write_index"
    /\ UNCHANGED <<appVars, folder, thr, disk_txt, memVars, ret, ctVars,
                   idom, todo, file_name, chunks, ci, texts, embeddings, log, disk0>>

\* open(..., "w") raises and the text file is as it was, or a write raises
\* after the file was emptied and n of the lines were written
IngestWriteTxtFails ==
    /\ ipc = "write_txt"
    /\ \/ disk_txt' = disk_txt
       \/ \E n \in 0..(Len(texts) - 1) :
             disk_txt' = [disk_txt EXCEPT ![idom] = TxtFile(TxtContent(SubSeq(texts, 1, n)))]
    /\ ipc' = "raised"
    /\ io_error' = "write_txt"
    /\ UNCHANGED <<appVars, folder, thr, disk_index, memVars, ret, ctVars,
                   idom, todo, file_name, chunks, ci, texts, embeddings, log, disk0>>

IngestFailure ==
    \/ \E d \in Domains : IngestListFails(d)
    \/ IngestExtractFails
    \/ IngestWriteIndexFails
    \/ IngestWriteTxtFails

----------------------------------------------------------------------------
(* retriever.py *)

\* a string literal of the source, never looked into
Lit(str) == <<str>>

\* try: faiss.read_index(index_path)  except: None
load_index_safely(file) ==
    IF file.exists /\ file.valid
    THEN [state |-> "loaded", vecs |-> file.vecs]
    ELSE [state |-> "none", vecs |-> <<>>]

\* the module-level index the function of domain d names
IndexOf(d) == IF d = "workout" THEN workout_index ELSE nutrition_index

\* importing the module: the two module-level loads
ImportRetriever ==
    /\ workout_index.state = "unloaded"
    /\ nutrition_index.state = "unloaded"
    /\ workout_index' = load_index_safely(disk_index["workout"])
    /\ nutrition_index' = load_index_safely(disk_index["nutrition"])
    /\ UNCHANGED <<appVars, folder, thr, diskVars, ingVars, ret, ctVars>>

\* the list returned when the index is None
FallbackUnavailable(d) ==
    IF d = "workout"
    THEN << Lit("Progressive overload is key for muscle growth"),
            Lit("Compound exercises like squats and deadlifts are most effective"),
            Lit("Rest 48-72 hours between training same muscle groups") >>
    ELSE << Lit("Protein intake should be 1.6-2.2g per kg bodyweight"),
            Lit("Eat in a caloric deficit for fat loss, surplus for muscle gain"),
            Lit("Include variety of whole foods for micronutrients") >>

\* the list returned by the except clause
FallbackExcept_Reordered(d) ==
    IF d = "workout"
    THEN << Lit("Compound exercises like squats and deadlifts are most effective"),
            Lit("Progressive overload is key for muscle growth"),
            Lit("Rest 48-72 hours between training same muscle groups") >>
    ELSE << Lit("Eat in a caloric deficit for fat loss, surplus for muscle gain"),
            Lit("Protein intake should be 1.6-2.2g per kg bodyweight"),
            Lit("Include variety of whole foods for micronutrients") >>

FallbackExcept(d) ==
    IF d = "workout"
    THEN << Lit("Progressive overload is key for muscle growth"),
            Lit("Compound exercises like squats and deadlifts are most effective"),
            Lit("Rest 48-72 hours between training same muscle groups") >>
    ELSE << Lit("Protein intake should be 1.6-2.2g per kg bodyweight"),
            Lit("Eat in a caloric deficit for fat loss, surplus for muscle gain"),
            Lit("Include variety of whole foods for micronutrients") >>

\* the orders of the positions 0..n-1 of the index by non-decreasing distance
\* to the query vector; equal distances may come in either order
NearestFirst(vecs, qv) ==
    LET n == Len(vecs)
    IN  { p \in [1..n -> 0..(n - 1)] :
            /\ \A i, j \in 1..n : i # j => p[i] # p[j]
            /\ \A i, j \in 1..n : i < j => Dist(qv, vecs[p[i] + 1]) <= Dist(qv, vecs[p[j] + 1]) }

\* indices[0] of index.search(query, top_k): the top_k nearest positions,
\* nearest first, and -1 for each neighbour the index does not have
Search(vecs, qv, top_k) ==
    { [i \in 1..top_k |-> IF i <= Len(vecs) THEN p[i] ELSE -1] : p \in NearestFirst(vecs, qv) }

Outcome(path, kind, exc, requests, labels, nlines, value) ==
    [path |-> path, kind |-> kind, exc |-> exc, requests |-> requests,
     labels |-> labels, nlines |-> nlines, value |-> value]

\* the lookup of the try block once the query is embedded: txt is the text
\* file the function opens, labels what the search answers, requests the
\* number of embedding requests made so far
Lookup(txt, requests, labels) ==
    IF ~txt.exists
    THEN Outcome("search", "raise", "FileNotFoundError", requests, labels, -1, <<>>)
    ELSE LET lines == readlines(txt.data)
         IN  IF \E i \in 1..Len(labels) : ~PyInRange(lines, labels[i])
             THEN Outcome("search", "raise", "IndexError", requests, labels, Len(lines), <<>>)
             ELSE Outcome("search", "return", "", requests, labels, Len(lines),
                          [i \in 1..Len(labels) |-> strip(PyIndex(lines, labels[i]))])

\* a plausible slip: a second embedding request after a failed one
TryBody_Retry(txt, q, top_k, embed_ok, labels) ==
    IF ~embed_ok
    THEN Lookup(txt, 2, labels)
    ELSE Lookup(txt, 1, labels)

\* a plausible slip: the labels taken as positions counted from 1
TryBody_FromOne(txt, q, top_k, embed_ok, labels) ==
    IF ~embed_ok
    THEN Outcome("search", "raise", "EmbedError", 1, <<>>, -1, <<>>)
    ELSE Lookup(txt, 1, [i \in 1..Len(labels) |-> IF labels[i] >= 0 THEN labels[i] + 1 ELSE labels[i]])

\* the body of the try block.  embed_ok: the one embedding request answers;
\* labels: what the search answers
TryBody(txt, q, top_k, embed_ok, labels) ==
    IF ~embed_ok
    THEN Outcome("search", "raise", "EmbedError", 1, <<>>, -1, <<>>)
    ELSE Lookup(txt, 1, labels)

\* a handler written for the file lookup only: except (OSError, IndexError)
Except_LookupOnly(d, r) ==
    IF r.kind = "raise" /\ r.exc # "EmbedError"
    THEN [r EXCEPT !.path = "except", !.kind = "return", !.value = FallbackExcept(d)]
    ELSE r

\* the bare except: whatever the try block raised, return the fallback list
Except(d, r) ==
    IF r.kind = "raise"
    THEN [r EXCEPT !.path = "except", !.kind = "return", !.value = FallbackExcept(d)]
    ELSE r

\* the fallback list cut to top_k entries
retrieve_CutToTopK(d, idx, txt, q, top_k, embed_ok, labels) ==
    IF idx.state = "none"
    THEN Outcome("unavailable", "return", "", 0, <<>>, -1,
                 SubSeq(FallbackUnavailable(d), 1, Min2(top_k, 3)))
    ELSE LET r == Except(d, TryBody(txt, q, top_k, embed_ok, labels))
         IN  IF r.path = "except" THEN [r EXCEPT !.value = SubSeq(r.value, 1, Min2(top_k, 3))]
             ELSE r

\* a lookup that reads every line after the nearest one as well
retrieve_TooMany(d, idx, txt, q, top_k, embed_ok, labels) ==
    IF idx.state = "none"
    THEN Outcome("unavailable", "return", "", 0, <<>>, -1, FallbackUnavailable(d))
    ELSE LET r == Except(d, TryBody(txt, q, top_k, embed_ok, labels))
         IN  IF r.path = "search" THEN [r EXCEPT !.value = r.value \o r.value]
             ELSE r

\* the body of retrieve_workouts / retrieve_nutrition: d is the domain, idx
\* the module-level index and txt the text file the function names
retrieve(d, idx, txt, q, top_k, embed_ok, labels) ==
    IF idx.state = "none"
    THEN Outcome("unavailable", "return", "", 0, <<>>, -1, FallbackUnavailable(d))
    ELSE Except(d, TryBody(txt, q, top_k, embed_ok, labels))

\* the record of a call: its arguments, what the services answered, the outcome
Call(d, idx, txt, q, top_k, embed_ok, labels) ==
    LET r == retrieve(d, idx, txt, q, top_k, embed_ok, labels)
    IN  [fn |-> d, query |-> q, top_k |-> top_k, path |-> r.path,
         embed_ok |-> (r.path # "unavailable" /\ embed_ok),
         requests |-> r.requests,
         labels |-> r.labels, nlines |-> r.nlines,
         kind |-> r.kind, value |-> r.value]

\* every call of the function of domain d, over the queries, the values of
\* top_k, the answers of the embedding service and those of the search
Calls(d, idx, txt) ==
    UNION { { Call(d, idx, txt, c[1], c[2], c[3], labels) :
                labels \in Search(idx.vecs, Embed(c[1]), c[2]) } :
            c \in Queries \X (1..MaxTopK) \X BOOLEAN }

\* a plausible slip of copying one function from the other: the file name
\* left as it was
retrieve_nutrition_of_WorkoutFile(widx, nidx, txts) == Calls("nutrition", nidx, txts["workout"])

\* the calls of each function in a process whose two module-level indexes
\* are widx and nidx, over the text files txts
retrieve_workouts_of(widx, nidx, txts) == Calls("workout", widx, txts["workout"])

retrieve_nutrition_of(widx, nidx, txts) == Calls("nutrition", nidx, txts["nutrition"])

\* a plausible slip: a call that finds no index tries to load it again
retrieve_workouts_Reload ==
    /\ workout_index.state # "unloaded"
    /\ workout_index' = IF workout_index.state = "none"
                        THEN load_index_safely(disk_index["workout"])
                        ELSE workout_index
    /\ ret' \in retrieve_workouts_of(workout_index', nutrition_index, disk_txt)
    /\ UNCHANGED <<appVars, folder, thr, diskVars, nutrition_index, ingVars, ctVars>>

\* a plausible slip: the except clause gives the index up for the rest of the
\* process after a failed embedding request
retrieve_workouts_Sticky ==
    /\ workout_index.state # "unloaded"
    /\ ret' \in retrieve_workouts_of(workout_index, nutrition_index, disk_txt)
    /\ workout_index' = IF ret'.path = "except" /\ ~ret'.embed_ok
                        THEN [state |-> "none", vecs |-> <<>>]
                        ELSE workout_index
    /\ UNCHANGED <<appVars, folder, thr, diskVars, nutrition_index, ingVars, ctVars>>

retrieve_workouts ==
    /\ workout_index.state # "unloaded"
    /\ ret' \in retrieve_workouts_of(workout_index, nutrition_index, disk_txt)
    /\ UNCHANGED <<appVars, folder, thr, diskVars, memVars, ingVars, ctVars>>

\* a plausible slip: the text file opened with "w+" for reading
retrieve_nutrition_Truncates ==
    /\ nutrition_index.state # "unloaded"
    /\ ret' \in retrieve_nutrition_of(workout_index, nutrition_index, disk_txt)
    /\ disk_txt' = IF nutrition_index.state = "loaded" /\ ret'.embed_ok
                   THEN [disk_txt EXCEPT !["nutrition"] = TxtFile(<<>>)]
                   ELSE disk_txt
    /\ UNCHANGED <<appVars, folder, thr, disk_index, memVars, ingVars, ctVars>>

retrieve_nutrition ==
    /\ nutrition_index.state # "unloaded"
    /\ ret' \in retrieve_nutrition_of(workout_index, nutrition_index, disk_txt)
    /\ UNCHANGED <<appVars, folder, thr, diskVars, memVars, ingVars, ctVars>>

----------------------------------------------------------------------------
(* chunk_text on its own: a document of ct_n words is handed to it *)

ChunkTextCall ==
    /\ ct_pc = "call"
    /\ ct_out' = chunk_text(ct_text, chunk_size_default)
    /\ ct_pc' = "done"
    /\ UNCHANGED <<appVars, folder, thr, diskVars, memVars, ingVars, ret, ct_n, ct_style, ct_text>>

\* no call yet
NoCall == [fn |-> "none", query |-> <<>>, top_k |-> 0, path |-> "none",
           embed_ok |-> FALSE, requests |-> 0, labels |-> <<>>, nlines |-> 0,
           kind |-> "none", value |-> <<>>]

----------------------------------------------------------------------------
(* retriever.py: retrieve_workouts / retrieve_nutrition statement by        *)
(* statement, called from several threads of the serving process.  The      *)
(* locals of a call are in thr[t].call, a record as Call makes.             *)

Threads == {"t1", "t2"}

Idle == [pc |-> "idle", call |-> NoCall, lines |-> <<>>]

\* the except clause of the call of thread t
ThreadExcept(t) ==
    [thr EXCEPT ![t].pc = "returned",
                ![t].call.path = "except",
                ![t].call.kind = "return",
                ![t].call.value = FallbackExcept(thr[t].call.fn)]

\* a thread calls the function of domain fn
retrieve_begin(t) ==
    /\ thr[t].pc \in {"idle", "returned"}
    /\ workout_index.state # "unloaded"
    /\ nutrition_index.state # "unloaded"
    /\ \E fn \in Domains, q \in Queries, top_k \in 1..MaxTopK :
          thr' = [thr EXCEPT ![t] = [pc |-> "check", lines |-> <<>>,
                     call |-> [NoCall EXCEPT !.fn = fn, !.query = q, !.top_k = top_k,
                                             !.nlines = -1]]]
    /\ UNCHANGED <<appVars, folder, diskVars, memVars, ingVars, ret, ctVars>>

\* if workout_index is None: return [...]
retrieve_check_index(t) ==
    /\ thr[t].pc = "check"
    /\ thr' = IF IndexOf(thr[t].call.fn).state = "none"
              THEN [thr EXCEPT ![t].pc = "returned",
                               ![t].call.path = "unavailable",
                               ![t].call.kind = "return",
                               ![t].call.value = FallbackUnavailable(thr[t].call.fn)]
              ELSE [thr EXCEPT ![t].pc = "embed"]
    /\ UNCHANGED <<appVars, folder, diskVars, memVars, ingVars, ret, ctVars>>

\* query_embedding = genai.embed_content(...)["embedding"]
retrieve_embed(t) ==
    /\ thr[t].pc = "embed"
    /\ \E ok \in BOOLEAN :
          thr' = IF ok
                 THEN [thr EXCEPT ![t].pc = "search", ![t].call.requests = 1,
                                  ![t].call.embed_ok = TRUE]
                 ELSE [ThreadExcept(t) EXCEPT ![t].call.requests = 1]
    /\ UNCHANGED <<appVars, folder, diskVars, memVars, ingVars, ret, ctVars>>

\* _, indices = workout_index.search(np.array([query_embedding]), top_k)
retrieve_search(t) ==
    /\ thr[t].pc = "search"
    /\ \E labels \in Search(IndexOf(thr[t].call.fn).vecs, Embed(thr[t].call.query),
                            thr[t].call.top_k) :
          thr' = [thr EXCEPT ![t].pc = "open", ![t].call.labels = labels]
    /\ UNCHANGED <<appVars, folder, diskVars, memVars, ingVars, ret, ctVars>>

\* with open("data/workout.txt", "r", ...) as f: lines = f.readlines()
retrieve_readlines(t) ==
    /\ thr[t].pc = "open"
    /\ thr' = IF ~disk_txt[thr[t].call.fn].exists
              THEN ThreadExcept(t)
              ELSE LET lines == readlines(disk_txt[thr[t].call.fn].data)
                   IN  [thr EXCEPT ![t].pc = "pick", ![t].lines = lines,
                                   ![t].call.nlines = Len(lines)]
    /\ UNCHANGED <<appVars, folder, diskVars, memVars, ingVars, ret, ctVars>>

\* a plausible slip: `indices` kept in a module-level name, so that a call
\* picks the lines at the positions the latest search of any thread answered
retrieve_pick_SharedIndices(t) ==
    /\ thr[t].pc = "pick"
    /\ \E u \in Threads :
          /\ thr[u].pc \in {"open", "pick"}
          /\ LET lines == thr[t].lines
                 labels == thr[u].call.labels
             IN  thr' = IF \E i \in 1..Len(labels) : ~PyInRange(lines, labels[i])
                        THEN ThreadExcept(t)
                        ELSE [thr EXCEPT ![t].pc = "returned",
                                 ![t].call.path = "search",
                                 ![t].call.kind = "return",
                                 ![t].call.value =
                                     [i \in 1..Len(labels) |-> strip(PyIndex(lines, labels[i]))]]
    /\ UNCHANGED <<appVars, folder, diskVars, memVars, ingVars, ret, ctVars>>

\* return [lines[i].strip() for i in indices[0]]
retrieve_pick(t) ==
    /\ thr[t].pc = "pick"
    /\ LET lines == thr[t].lines
           labels == thr[t].call.labels
       IN  thr' = IF \E i \in 1..Len(labels) : ~PyInRange(lines, labels[i])
                  THEN ThreadExcept(t)
                  ELSE [thr EXCEPT ![t].pc = "returned",
                           ![t].call.path = "search",
                           ![t].call.kind = "return",
                           ![t].call.value =
                               [i \in 1..Len(labels) |-> strip(PyIndex(lines, labels[i]))]]
    /\ UNCHANGED <<appVars, folder, diskVars, memVars, ingVars, ret, ctVars>>

ThreadStep(t) ==
    \/ retrieve_begin(t)
    \/ retrieve_check_index(t)
    \/ retrieve_embed(t)
    \/ retrieve_search(t)
    \/ retrieve_readlines(t)
    \/ retrieve_pick(t)

----------------------------------------------------------------------------
(* app.py: storing a workout plan *)

Users == {"u1", "u2"}

\* the values of request.action the endpoint documents
Actions == {"update", "add"}

\* the plan body a request carries (the stored plans differ by created_at)
Plans == {"push-pull"}

\* the requests the fallback store serves in one run: MaxStores in all, of
\* which only the first MaxOtherStores may be of the second user
Quota(user_id) == IF user_id = "u1" THEN MaxStores ELSE MaxOtherStores

\* seq[-n:] for n > 0
PyLast(seq, n) == IF Len(seq) > n THEN SubSeq(seq, Len(seq) - n + 1, Len(seq)) ELSE seq

\* a user_id that is no key of fallback_profiles; a profile {} has has_plans
\* FALSE, one with the key 'workout_plans' has it TRUE
NoProfile == [present |-> FALSE, has_plans |-> FALSE, workout_plans |-> <<>>]

plans_cap == 10

\* a plausible slip: [:10] for [-10:]
store_workout_plan_in_fallback_KeepsFirst(profiles, user_id, workout_plan_json, action, created_at) ==
    LET old == IF profiles[user_id].present /\ profiles[user_id].has_plans /\ action # "update"
               THEN profiles[user_id].workout_plans
               ELSE <<>>
        all == Append(old, [plan |-> workout_plan_json, created_at |-> created_at,
                            action |-> action])
    IN  [profiles EXCEPT ![user_id] =
            [present |-> TRUE, has_plans |-> TRUE,
             workout_plans |-> IF Len(all) > plans_cap THEN PySlice(all, 0, plans_cap) ELSE all]]

\* fallback_profiles after store_workout_plan_in_fallback (the definition of
\* line 2560, which replaces the one of line 2467 when the module is loaded)
store_workout_plan_in_fallback(profiles, user_id, workout_plan_json, action, created_at) ==
    LET old == IF profiles[user_id].present /\ profiles[user_id].has_plans /\ action # "update"
               THEN profiles[user_id].workout_plans
               ELSE <<>>
        all == Append(old, [plan |-> workout_plan_json, created_at |-> created_at,
                            action |-> action])
    IN  [profiles EXCEPT ![user_id] =
            [present |-> TRUE, has_plans |-> TRUE,
             workout_plans |-> IF Len(all) > plans_cap THEN PyLast(all, plans_cap) ELSE all]]

\* save_fallback_profiles: the file after json.dump of profiles, or, the
\* exception being passed over, as it was (open raised) or cut short
save_fallback_profiles(profiles) ==
    \E outcome \in {"ok", "open raises", "write raises"} :
        fallback_file' = IF outcome = "ok" THEN [state |-> "json", data |-> profiles]
                         ELSE IF outcome = "open raises" THEN fallback_file
                         ELSE [state |-> "cut", data |-> [u \in Users |-> NoProfile]]

NoStore == [user |-> "none", action |-> "none", result |-> FALSE, before |-> <<>>]

\* the rows of user_id in the table, in table order
RowsOf(rows, user_id) == SelectSeq(rows, LAMBDA r : r.user_id = user_id)

\* store_workout_plan_in_supabase with a client.  What the service does of a
\* request: "ok"; "raises" (nothing done, exception); "lost" (done, but the
\* answer is an exception); for the insert also "empty" (no row in the answer)
store_workout_plan_in_supabase(user_id, workout_plan_json, action) ==
    \E del \in {"ok", "raises", "lost"}, ins \in {"ok", "raises", "lost", "empty"} :
        LET before == RowsOf(workout_plans, user_id)
            deleted == IF action = "update" /\ del \in {"ok", "lost"}
                       THEN SelectSeq(workout_plans, LAMBDA r : r.user_id # user_id)
                       ELSE workout_plans
            delete_raised == action = "update" /\ del \in {"raises", "lost"}
            row == [id |-> next_id, user_id |-> user_id, plan |-> workout_plan_json]
            inserted == ~delete_raised /\ ins \in {"ok", "lost"}
        IN  /\ workout_plans' = IF inserted THEN Append(deleted, row) ELSE deleted
            /\ next_id' = IF inserted THEN next_id + 1 ELSE next_id
            /\ sb' = [user |-> user_id, action |-> action, before |-> before,
                      result |-> (~delete_raised /\ ins = "ok")]

\* POST /api/save-workout-plan
save_workout_plan_endpoint(user_id, action, workout_plan) ==
    /\ IF supabase
       THEN /\ next_id <= MaxRows
            /\ store_workout_plan_in_supabase(user_id, workout_plan, action)
            /\ ep' = [user |-> user_id, action |-> action, success |-> sb'.result]
            /\ UNCHANGED <<fbVars, now>>
       ELSE /\ now < Quota(user_id)
            /\ fallback_profiles' = store_workout_plan_in_fallback(
                                        fallback_profiles, user_id, workout_plan, action, now)
            /\ save_fallback_profiles(fallback_profiles')
            /\ fb_kept' = [fb_kept EXCEPT ![user_id] =
                              Append(IF action = "update" THEN <<>> ELSE @,
                                     [plan |-> workout_plan, created_at |-> now,
                                      action |-> action])]
            /\ now' = now + 1
            /\ ep' = [user |-> user_id, action |-> action, success |-> TRUE]
            /\ UNCHANGED sbVars
    /\ UNCHANGED <<ragVars, supabase, rq, cacheVars>>

SaveWorkoutPlan ==
    \E user_id \in Users, action \in Actions, workout_plan \in Plans :
        save_workout_plan_endpoint(user_id, action, workout_plan)

NoResponse == [user |-> "none", action |-> "none", success |-> FALSE]

----------------------------------------------------------------------------
(* app.py: get_user_profile and check_existing_workout_plans *)

max_retries == 3

\* the rows of the Supabase table user_profiles
user_profiles == << [user_id |-> "u1", goal |-> "muscle gain"] >>

QueryFns == {"get_user_profile", "check_existing_workout_plans"}

NoQuery == [fn |-> "none", user |-> "none", pc |-> "idle", attempt |-> 0,
            queries |-> 0, failed |-> 0, result |-> <<>>]

\* result.data of the select of the function fn for user_id
Select(fn, user_id) ==
    IF fn = "get_user_profile"
    THEN RowsOf(user_profiles, user_id)
    ELSE RowsOf(workout_plans, user_id)

\* what the function returns of a non-empty result.data: a dict is held as
\* the list of its one row, {} and [] as the empty list
Returned(fn, data) == IF fn = "get_user_profile" THEN <<data[1]>> ELSE data

\* the call, up to the first attempt: `if not supabase: return {}`
query_call(fn, user_id) ==
    /\ rq.pc \in {"idle", "returned"}
    /\ rq' = [NoQuery EXCEPT !.fn = fn, !.user = user_id,
                             !.pc = IF supabase THEN "try" ELSE "returned"]
    /\ UNCHANGED <<ragVars, storeVars, now, cacheVars>>

\* one turn of `for attempt in range(max_retries)`: the select answers or
\* raises; the except clause returns on the last attempt and sleeps otherwise
query_execute ==
    /\ rq.pc = "try"
    /\ \E answer \in {"ok", "raises"} :
          LET data == Select(rq.fn, rq.user)
          IN  rq' = IF answer = "ok"
                    THEN [rq EXCEPT !.queries = @ + 1, !.pc = "returned",
                             !.result = IF Len(data) > 0 THEN Returned(rq.fn, data) ELSE <<>>]
                    ELSE IF rq.attempt = max_retries - 1
                    THEN [rq EXCEPT !.queries = @ + 1, !.failed = @ + 1,
                                    !.pc = "returned", !.result = <<>>]
                    ELSE [rq EXCEPT !.queries = @ + 1, !.failed = @ + 1, !.pc = "sleep"]
    /\ UNCHANGED <<ragVars, storeVars, now, cacheVars>>

\* a plausible slip: a `while True` loop that never counts the attempt
query_sleep_NoCount ==
    /\ rq.pc = "sleep"
    /\ rq' = [rq EXCEPT !.pc = "try"]
    /\ UNCHANGED <<ragVars, storeVars, now, cacheVars>>

\* time.sleep(1) and the next turn of the loop
query_sleep ==
    /\ rq.pc = "sleep"
    /\ rq' = [rq EXCEPT !.pc = "try", !.attempt = @ + 1]
    /\ UNCHANGED <<ragVars, storeVars, now, cacheVars>>

NextQuery ==
    \/ \E fn \in QueryFns, user_id \in Users : query_call(fn, user_id)
    \/ query_execute
    \/ query_sleep

----------------------------------------------------------------------------
(* cache_manager.py: ResponseCache *)

\* cache_duration_hours, and the hours the clock runs
CacheDuration == 2
MaxClock == 4

\* the messages asked: two spellings of "hi", and "h i"
Messages == { <<"H", "i">>, <<" ", "h", "i", " ">>, <<"h", " ", "i">> }
Responses == {"r1", "r2"}

\* str.lower, on the letters of the messages
lower(str) ==
    [i \in 1..Len(str) |-> CASE str[i] = "H" -> "h"
                             [] str[i] = "I" -> "i"
                             [] OTHER -> str[i]]

\* hashlib.md5(...).hexdigest(), on the texts a key is made of
md5(str) ==
    CASE str = <<"h", "i">> -> "49f68a5c8493ec2c0bf489821c21fc3b"
      [] str = <<"H", "i">> -> "c1a5298f939e87e8f962a5edfc206918"
      [] str = <<" ", "h", "i", " ">> -> "71d81da3d6e75b8f61416025b42833b1"
      [] str = <<"h", " ", "i">> -> "4afa9cbce065ea795f42922bf84cd0d6"

CacheKeys == { md5(<<"h", "i">>), md5(<<"H", "i">>), md5(<<" ", "h", "i", " ">>),
               md5(<<"h", " ", "i">>) }

\* a plausible slip: the key of lower() alone
_get_cache_key_NoStrip(message) == md5(lower(message))

_get_cache_key(message) == md5(strip(lower(message)))

NoCacheFile == [state |-> "absent", response |-> "None", timestamp |-> 0]

\* what the messages say, letter case and surrounding whitespace apart
Said(message) == IF message = <<"h", " ", "i">> THEN "h i" ELSE "hi"

NoPut == [stored |-> FALSE, by |-> <<>>, response |-> "None", at |-> 0, lost |-> FALSE]

NoCacheCall == [op |-> "none", message |-> <<>>, returned |-> "None", at |-> 0]

\* cache_response: the file is written whole, or open() raises and the file
\* stays, or the dump raises and leaves the file cut; the exception is printed
cache_response(message, response) ==
    LET cache_key == _get_cache_key(message)
    IN  /\ \E outcome \in {"ok", "open raises", "dump raises"} :
              /\ cache_files' =
                    CASE outcome = "ok" ->
                           [cache_files EXCEPT ![cache_key] =
                               [state |-> "json", response |-> response, timestamp |-> now]]
                      [] outcome = "open raises" -> cache_files
                      [] outcome = "dump raises" ->
                           [cache_files EXCEPT ![cache_key] = [NoCacheFile EXCEPT !.state = "cut"]]
              /\ cache_put' =
                    CASE outcome = "ok" ->
                           [cache_put EXCEPT ![Said(message)] =
                               [stored |-> TRUE, by |-> message, response |-> response,
                                at |-> now, lost |-> FALSE]]
                      [] outcome = "open raises" -> cache_put
                      [] outcome = "dump raises" ->
                           [cache_put EXCEPT ![Said(message)].lost = TRUE]
        /\ cr' = [op |-> "cache_response", message |-> message, returned |-> "None", at |-> now]
        /\ UNCHANGED <<ragVars, storeVars, now, rq>>

\* get_cached_response: None of a missing file; a file that does not parse is
\* removed; a file older than cache_duration is removed; else its response
get_cached_response(message) ==
    LET cache_key == _get_cache_key(message)
        cache_data == cache_files[cache_key]
    IN  /\ IF cache_data.state = "absent"
           THEN /\ cr' = [op |-> "get_cached_response", message |-> message,
                          returned |-> "None", at |-> now]
                /\ UNCHANGED cache_files
           ELSE IF cache_data.state = "cut"
           THEN /\ cr' = [op |-> "get_cached_response", message |-> message,
                          returned |-> "None", at |-> now]
                /\ cache_files' = [cache_files EXCEPT ![cache_key] = NoCacheFile]
           ELSE IF now - cache_data.timestamp > CacheDuration
           THEN /\ cr' = [op |-> "get_cached_response", message |-> message,
                          returned |-> "None", at |-> now]
                /\ cache_files' = [cache_files EXCEPT ![cache_key] = NoCacheFile]
           ELSE /\ cr' = [op |-> "get_cached_response", message |-> message,
                          returned |-> cache_data.response, at |-> now]
                /\ UNCHANGED cache_files
        /\ UNCHANGED <<ragVars, storeVars, now, rq, cache_put>>

\* clear_cache removes every .json file of cache_dir
clear_cache ==
    /\ cache_files' = [k \in CacheKeys |-> NoCacheFile]
    /\ cache_put' = [c \in DOMAIN cache_put |-> [cache_put[c] EXCEPT !.lost = TRUE]]
    /\ cr' = [op |-> "clear_cache", message |-> <<>>, returned |-> "None", at |-> now]
    /\ UNCHANGED <<ragVars, storeVars, now, rq>>

\* an hour passes
Tick ==
    /\ now < MaxClock
    /\ now' = now + 1
    /\ UNCHANGED <<ragVars, storeVars, rq, cacheVars>>

NextCache ==
    \/ \E message \in Messages, response \in Responses : cache_response(message, response)
    \/ \E message \in Messages : get_cached_response(message)
    \/ clear_cache
    \/ Tick

\* an empty cache_dir
InitCache ==
    /\ cache_files = [k \in CacheKeys |-> NoCacheFile]
    /\ cache_put = [c \in {"hi", "h i"} |-> NoPut]
    /\ cr = NoCacheCall

\* the application when nothing was stored yet and no request is under way
InitApp ==
    /\ supabase = FALSE
    /\ workout_plans = <<>>
    /\ next_id = 1
    /\ sb = NoStore
    /\ fallback_profiles = [u \in Users |-> NoProfile]
    /\ fallback_file = [state |-> "absent", data |-> [u \in Users |-> NoProfile]]
    /\ now = 0
    /\ fb_kept = [u \in Users |-> <<>>]
    /\ ep = NoResponse
    /\ rq = NoQuery
    /\ InitCache

----------------------------------------------------------------------------
(* Initial states *)

InitIngest ==
    /\ ipc = "idle"
    /\ idom = "workout"
    /\ todo = {}
    /\ file_name = ""
    /\ chunks = <<>>
    /\ ci = 1
    /\ texts = <<>>
    /\ embeddings = <<>>
    /\ log = <<>>
    /\ disk0 = [index |-> NoFile, txt |-> NoTxt]
    /\ io_error = ""

InitRetriever ==
    /\ workout_index = [state |-> "unloaded", vecs |-> <<>>]
    /\ nutrition_index = [state |-> "unloaded", vecs |-> <<>>]
    /\ ret = NoCall
    /\ thr = [t \in Threads |-> Idle]

InitChunkIdle ==
    /\ ct_n = 0
    /\ ct_style = "spaces"
    /\ ct_text = <<>>
    /\ ct_out = <<>>
    /\ ct_pc = "done"

\* the indexing scenarios: one domain's folder holds a two-chunk file among
\* others and has no index file yet or, at the index path, a file that is no
\* index; the other domain's folder is empty or holds nothing to index
InitIndexing ==
    /\ \E d \in Domains, corpus \in {LongCorpus, ExampleCorpus},
          nothing \in {{}, {EmptyTxt, PhotoJpg}}, found \in {NoFile, CorruptFile} :
          /\ folder = [x \in Domains |-> IF x = d THEN corpus ELSE nothing]
          /\ disk_index = [x \in Domains |-> IF x = d THEN found ELSE NoFile]
    /\ disk_txt = [d \in Domains |-> NoTxt]
    /\ InitIngest
    /\ InitRetriever
    /\ InitApp
    /\ InitChunkIdle

\* the serving scenarios: one domain has a corpus of two files and no output
\* files yet, the other an empty folder and, at its index path, a file that is
\* no index
InitServing ==
    /\ \E d \in Domains :
        /\ folder = [x \in Domains |-> IF x = d THEN SmallCorpus ELSE {}]
        /\ disk_index = [x \in Domains |-> IF x = d THEN NoFile ELSE CorruptFile]
    /\ disk_txt = [d \in Domains |-> NoTxt]
    /\ InitIngest
    /\ InitRetriever
    /\ InitApp
    /\ InitChunkIdle

Next ==
    \/ IngestStep
    \/ ImportRetriever
    \/ retrieve_workouts
    \/ retrieve_nutrition

Spec == InitServing /\ [][Next]_vars

\* the output of a run of ingest_files that embedded the chunks ts in this order
BuiltIndex(ts) == IF ts = <<>> THEN NoFile ELSE IndexFile([i \in 1..Len(ts) |-> Embed(ts[i])])

BuiltTxt(ts) == IF ts = <<>> THEN NoTxt ELSE TxtFile(TxtContent(ts))

\* what ingest_files embeds of the two-file corpus listed in either order, and
\* of an empty folder
Builds ==
    LET plan == chunk_text(extract_text_from_txt(PlanTxt), chunk_size_default)
        guide == chunk_text(extract_text_from_pdf(GuidePdf), chunk_size_default)
    IN  {<<>>, plan \o guide, guide \o plan}

\* the serving process starts after the indexing job has run: each domain has
\* the output of a run over the corpus, or an empty folder and no output
InitBuilt ==
    /\ \E b \in [Domains -> Builds] :
        /\ folder = [d \in Domains |-> IF b[d] = <<>> THEN {} ELSE SmallCorpus]
        /\ disk_index = [d \in Domains |-> BuiltIndex(b[d])]
        /\ disk_txt = [d \in Domains |-> BuiltTxt(b[d])]
    /\ InitIngest
    /\ InitRetriever
    /\ InitApp
    /\ InitChunkIdle

NextServe ==
    \/ ImportRetriever
    \/ retrieve_workouts
    \/ retrieve_nutrition

\* the serving process alone, one call at a time
SpecServe == InitBuilt /\ [][NextServe]_vars

NextThreads ==
    \/ ImportRetriever
    \/ \E t \in Threads : ThreadStep(t)

\* the serving process alone, its threads calling retrieve_* concurrently
SpecThreads == InitBuilt /\ [][NextThreads]_vars

SpecIngest == InitIndexing /\ [][IngestStep]_vars

NextIO ==
    \/ IngestStep
    \/ IngestFailure

\* the indexing job when reading the sources or writing the output may fail:
\* the workout folder holds the corpus and the nutrition folder is empty
InitIO ==
    /\ InitIndexing
    /\ folder = [x \in Domains |-> IF x = "workout" THEN LongCorpus ELSE {}]
    /\ disk_index = [x \in Domains |-> NoFile]

SpecIO == InitIO /\ [][NextIO]_vars

InitChunk ==
    /\ folder = [d \in Domains |-> {}]
    /\ disk_index = [d \in Domains |-> NoFile]
    /\ disk_txt = [d \in Domains |-> NoTxt]
    /\ InitIngest
    /\ InitRetriever
    /\ InitApp
    /\ ct_n \in 0..MaxWords
    /\ ct_style \in Styles
    /\ ct_text = Doc(ct_n, ct_style)
    /\ ct_out = <<>>
    /\ ct_pc = "call"

SpecChunk == InitChunk /\ [][ChunkTextCall]_vars

\* the retrieval subsystem at rest: nothing indexed, nothing loaded
InitRagIdle ==
    /\ folder = [d \in Domains |-> {}]
    /\ disk_index = [d \in Domains |-> NoFile]
    /\ disk_txt = [d \in Domains |-> NoTxt]
    /\ InitIngest
    /\ InitRetriever
    /\ InitChunkIdle

\* the application starts with or without a Supabase client, an empty table
\* and no fallback file
InitPlans ==
    /\ InitRagIdle
    /\ supabase \in BOOLEAN
    /\ workout_plans = <<>>
    /\ next_id = 1
    /\ sb = NoStore
    /\ fallback_profiles = [u \in Users |-> NoProfile]
    /\ fallback_file = [state |-> "absent", data |-> [u \in Users |-> NoProfile]]
    /\ now = 0
    /\ fb_kept = [u \in Users |-> <<>>]
    /\ ep = NoResponse
    /\ rq = NoQuery
    /\ InitCache

\* the requests that save workout plans
SpecPlans == InitPlans /\ [][SaveWorkoutPlan]_vars

\* the tables the queries read: no plan, one plan of u1, plans of both users
InitQuery ==
    /\ InitRagIdle
    /\ supabase \in BOOLEAN
    /\ \E n \in {0, 1, 3} :
          /\ workout_plans = [i \in 1..n |-> [id |-> i, plan |-> "push-pull",
                                              user_id |-> IF i = 2 THEN "u2" ELSE "u1"]]
          /\ next_id = n + 1
    /\ sb = NoStore
    /\ fallback_profiles = [u \in Users |-> NoProfile]
    /\ fallback_file = [state |-> "absent", data |-> [u \in Users |-> NoProfile]]
    /\ now = 0
    /\ fb_kept = [u \in Users |-> <<>>]
    /\ ep = NoResponse
    /\ rq = NoQuery
    /\ InitCache

\* the calls of the response cache, and the passing of time
InitResponseCache ==
    /\ InitRagIdle
    /\ InitApp

SpecCache == InitResponseCache /\ [][NextCache]_vars

\* the calls of the two retrying queries; a call under way goes on
SpecQuery ==
    /\ InitQuery
    /\ [][NextQuery]_vars
    /\ WF_vars(query_execute)
    /\ WF_vars(query_sleep)

----------------------------------------------------------------------------
(* Claims about the indexer *)

IsOk(e) == e.ok

\* the chunks of the running call whose embedding request answered, in order
Embedded == SelectSeq(log, IsOk)

Supported(f) == f.ext \in {".pdf", ".txt"}

\* the chunks ingest_files makes of a supported file
ChunksOf(f) ==
    chunk_text(IF f.ext = ".pdf" THEN extract_text_from_pdf(f) ELSE extract_text_from_txt(f),
               chunk_size_default)

\* C1: after an ingest_files run that wrote its output, the index and the text
\* file have one entry per chunk that was embedded, in the order they were
\* embedded: vector i is the embedding of that chunk and line i is exactly its
\* text (followed by the line end), whatever chunks failed and whatever order
\* the files were listed in.
C1_LineIsEmbeddedChunk ==
    (ipc = "done" /\ embeddings # <<>>) =>
        LET idx == disk_index[idom]
            lines == readlines(disk_txt[idom].data)
        IN  /\ idx.exists /\ idx.valid /\ disk_txt[idom].exists
            /\ Len(idx.vecs) = Len(Embedded)
            /\ Len(lines) = Len(Embedded)
            /\ \A i \in 1..Len(Embedded) :
                /\ idx.vecs[i] = Embed(Embedded[i].text)
                /\ lines[i] = Embedded[i].text \o <<"\n">>

\* a run over the two-chunk file and the notes file that lost a chunk to a failed
\* request before embedding a later one, and wrote its output
C1_Witness ==
    /\ ipc = "done"
    /\ Len(disk_index[idom].vecs) >= 2
    /\ \E i, j \in 1..Len(log) : i < j /\ ~log[i].ok /\ log[j].ok

\* C8: a chunk whose embedding request fails adds neither a vector nor a text;
\* the accumulated texts and embeddings are those of the chunks that were
\* embedded, so the two lists have the same length throughout; and the run goes
\* on: when the loop is over, every chunk of every supported file was tried.
C8_FailedChunkDropped ==
    /\ Len(texts) = Len(embeddings)
    /\ texts = [i \in 1..Len(Embedded) |-> Embedded[i].text]
    /\ embeddings = [i \in 1..Len(Embedded) |-> Embed(Embedded[i].text)]
    /\ ipc \in {"write_txt", "done"} =>
          \A f \in folder[idom] : Supported(f) =>
              \A k \in 1..Len(ChunksOf(f)) :
                  \E i \in 1..Len(log) : log[i].file = f.name /\ log[i].pos = k

\* the first chunk of a file failed and its second was embedded, and a chunk of
\* a file listed later was embedded after a failure
C8_Witness ==
    /\ ipc = "done"
    /\ \E i, j \in 1..Len(log) :
          i < j /\ log[i].file = log[j].file /\ ~log[i].ok /\ log[j].ok
    /\ \E i, j \in 1..Len(log) :
          i < j /\ log[i].file # log[j].file /\ ~log[i].ok /\ log[j].ok
    /\ Len(texts) = 2

\* C9: a run that embedded no chunk returns normally and leaves both output
\* files as it found them (absent, or what an earlier run wrote).
C9_NoChunkNoOutput ==
    /\ (embeddings = <<>> /\ ipc \in {"files", "embed", "done"}) =>
          /\ disk_index[idom] = disk0.index
          /\ disk_txt[idom] = disk0.txt
    /\ (embeddings = <<>> /\ ipc = "files" /\ todo = {}) => ENABLED IngestWriteIndex
    /\ (embeddings = <<>>) => ipc # "write_txt"

\* every request of a run over existing output failed, and the run returned
C9_Witness ==
    /\ ipc = "done"
    /\ embeddings = <<>>
    /\ Len(log) = 3
    /\ disk0.index.valid
    /\ disk_txt[idom].exists

\* a run over an empty folder returned
C9_WitnessEmptyFolder ==
    ipc = "done" /\ folder[idom] = {} /\ ~disk_txt[idom].exists

\* a run over a folder holding only an empty file and an unsupported one returned
C9_WitnessNothingToIndex ==
    ipc = "done" /\ folder[idom] = {EmptyTxt, PhotoJpg} /\ todo = {} /\ log = <<>>

\* the chunks a run has to try: chunk k of every supported file of the folder
ToTry == UNION { {<<f.name, k>> : k \in 1..Len(ChunksOf(f))} :
                    f \in {g \in folder[idom] : Supported(g)} }

\* C11: a file whose extension is neither .pdf nor .txt contributes no chunk
\* and ends no run: every chunk a run tries is a chunk of a supported file,
\* a run that returned tried each chunk of the supported files once and
\* nothing else, and when every request answered its two output files have
\* one entry per chunk of the supported files, whatever else is in the folder.
C11_UnsupportedIgnored ==
    /\ \A i \in 1..Len(log) :
          \E f \in folder[idom] : Supported(f) /\ f.name = log[i].file
    /\ ipc \in {"write_txt", "done"} =>
          LET all == ToTry IN
          /\ {<<log[i].file, log[i].pos>> : i \in 1..Len(log)} = all
          /\ Len(log) = Cardinality(all)
          /\ (ipc = "done" /\ log # <<>> /\ Embedded = log) =>
                /\ Len(disk_index[idom].vecs) = Len(log)
                /\ Len(readlines(disk_txt[idom].data)) = Len(log)

\* the run over the 1000-word text file and the picture returned, having
\* written an index of 2 vectors and a text file of 2 lines
C11_Witness ==
    /\ ipc = "done"
    /\ folder[idom] = ExampleCorpus
    /\ todo = {}
    /\ Len(disk_index[idom].vecs) = 2
    /\ Len(readlines(disk_txt[idom].data)) = 2
    /\ disk_index[idom].vecs[1] = Embed(chunk_text(Doc(ExampleWords, "spaces"), chunk_size_default)[1])

\* C15: an I/O operation of ingest_files that raises ends the call with that
\* exception (nothing catches it and the call does not go on), and when it
\* was the listing of the folder or the reading of a source file, both output
\* files are as the call found them.
C15_IOErrorPropagates ==
    /\ (io_error # "") <=> (ipc = "raised")
    /\ io_error \in {"listdir", "read"} =>
          /\ disk_index[idom] = disk0.index
          /\ disk_txt[idom] = disk0.txt

\* a source file could not be read after chunks of another were embedded, in
\* a run over the output of an earlier run
C15_Witness ==
    /\ ipc = "raised"
    /\ io_error = "read"
    /\ embeddings # <<>>
    /\ disk0.index.valid
    /\ disk_txt[idom].exists

\* a write of the text file raised after the new index was written
C15_WitnessWrite ==
    /\ ipc = "raised"
    /\ io_error = "write_txt"
    /\ disk_index[idom] = IndexFile(embeddings)

\* C20: a run that wrote its output replaced both files: whatever they held
\* before, the index file holds the vectors of the chunks embedded in this
\* run and nothing else, the text file holds their texts, one per line, and
\* nothing else, both in the order of embedding, which within a file is the
\* order of its chunks in the document.
C20_Overwrites ==
    (ipc = "done" /\ embeddings # <<>>) =>
        LET n == Len(Embedded) IN
        /\ disk_index[idom] = IndexFile([i \in 1..n |-> Embed(Embedded[i].text)])
        /\ disk_txt[idom] = TxtFile(Concat([i \in 1..n |-> Embedded[i].text \o <<"\n">>]))
        /\ Len(readlines(disk_txt[idom].data)) = n
        /\ \A i, j \in 1..n :
              (i < j /\ Embedded[i].file = Embedded[j].file) => Embedded[i].pos < Embedded[j].pos
        /\ \A i \in 1..n : \E f \in folder[idom] :
              /\ f.name = Embedded[i].file
              /\ Embedded[i].text = ChunksOf(f)[Embedded[i].pos]

\* a run over the output of an earlier run that had embedded more chunks wrote
\* its own, smaller, output
C20_Witness ==
    /\ ipc = "done"
    /\ embeddings # <<>>
    /\ disk0.index.valid
    /\ disk0.txt.exists
    /\ Len(disk0.index.vecs) > Len(disk_index[idom].vecs)
    /\ Len(readlines(disk0.txt.data)) > Len(readlines(disk_txt[idom].data))


\* C21: once a run of ingest_files has ended, by returning or by raising,
\* a readable index file of a domain has as many vectors as the text file of
\* the domain has lines, and a run that raised while it wrote the text file
\* left the pair it found or the complete pair of what it embedded.
C21_PairConsistent ==
    ipc \in {"idle", "done", "raised"} =>
        /\ \A d \in Domains :
              (disk_index[d].exists /\ disk_index[d].valid) =>
                  /\ disk_txt[d].exists
                  /\ Len(disk_index[d].vecs) = Len(readlines(disk_txt[d].data))
        /\ (ipc = "raised" /\ io_error = "write_txt") =>
              \/ /\ disk_index[idom] = disk0.index
                 /\ disk_txt[idom] = disk0.txt
              \/ /\ disk_index[idom] = IndexFile(embeddings)
                 /\ disk_txt[idom] = TxtFile(TxtContent(texts))

----------------------------------------------------------------------------
(* Claims about the retriever *)

Called == ret.fn # "none"

\* C2: when a domain's index did not load at import, every call of its retrieve
\* function returns the domain's three fallback sentences, whole and in order,
\* whatever the query and top_k, and does not raise.
C2_UnavailableFallback ==
    (Called /\ IndexOf(ret.fn).state = "none") =>
        /\ ret.kind = "return"
        /\ ret.value = FallbackUnavailable(ret.fn)
        /\ Len(ret.value) >= 1

\* retrieve_nutrition was called with top_k = 1 in a process that found a file
\* that is no index at the nutrition index path
C2_Witness ==
    /\ ret.fn = "nutrition"
    /\ nutrition_index.state = "none"
    /\ disk_index["nutrition"].exists /\ ~disk_index["nutrition"].valid
    /\ ret.top_k = 1
    /\ Len(ret.value) = 3

\* C3: with the index loaded, a call whose embedding request raises returns the
\* list the same function returns when the index is unavailable: same
\* sentences, same order.
C3_EmbedFailureFallback ==
    (Called /\ IndexOf(ret.fn).state = "loaded" /\ ~ret.embed_ok) =>
        /\ ret.kind = "return"
        /\ ret.value = FallbackUnavailable(ret.fn)

\* retrieve_workouts was called against a loaded index and the request raised
C3_Witness ==
    /\ ret.fn = "workout"
    /\ workout_index.state = "loaded"
    /\ ~ret.embed_ok
    /\ ret.path = "except"

\* C4 as stated: whatever the state of the retriever, a call returns at most
\* top_k strings.
C4_AtMostTopK ==
    (Called /\ ret.kind = "return") => Len(ret.value) <= ret.top_k

\* C4 as amended: a call that returns what the search found returns at most
\* top_k strings; a call that falls back returns the three fallback sentences
\* whatever top_k is, so at most max(top_k, 3).
C4_AtMostTopKUnlessFallback ==
    (Called /\ ret.kind = "return") =>
        /\ ret.path = "search" => Len(ret.value) <= ret.top_k
        /\ ret.path # "search" => Len(ret.value) = 3

\* a call with top_k = 2 returned two lines of the text file
C4_Witness ==
    /\ Called
    /\ ret.path = "search"
    /\ ret.kind = "return"
    /\ ret.top_k = 2
    /\ Len(ret.value) = 2
    /\ ret.value[1] # ret.value[2]

\* C5 as stated: the strings of a call that did not fall back come nearest
\* first: the distance from the query's vector to the vector of the chunk a
\* string is the text of never decreases along the list.
C5_NearestFirst ==
    (Called /\ ret.path = "search" /\ ret.kind = "return") =>
        \A i, j \in 1..Len(ret.value) :
            i < j => Dist(Embed(ret.query), Embed(ret.value[i]))
                        <= Dist(Embed(ret.query), Embed(ret.value[j]))

\* C6 as stated: a call whose search answers a position past the last line of
\* the text file raises to its caller.
C6_OutOfRangeRaises ==
    (Called /\ ret.nlines >= 0 /\ \E i \in 1..Len(ret.labels) : ret.labels[i] >= ret.nlines) =>
        ret.kind = "raise"

\* C7: a call against an unavailable index, or whose embedding request raises,
\* returns a list of at least one non-empty string; it does not raise.
C7_NeverRaises ==
    (Called /\ (ret.path = "unavailable" \/ ~ret.embed_ok)) =>
        /\ ret.kind = "return"
        /\ Len(ret.value) >= 1
        /\ \A i \in 1..Len(ret.value) : Len(ret.value[i]) >= 1

\* retrieve_nutrition was called with the largest top_k against a loaded index
\* and the request raised
C7_Witness ==
    /\ ret.fn = "nutrition"
    /\ nutrition_index.state = "loaded"
    /\ ~ret.embed_ok
    /\ ret.top_k = MaxTopK
    /\ ret.kind = "return"

\* the calls of the function of domain d in the current state
CallsNow(d) ==
    IF d = "workout"
    THEN retrieve_workouts_of(workout_index, nutrition_index, disk_txt)
    ELSE retrieve_nutrition_of(workout_index, nutrition_index, disk_txt)

\* C12: the index state of each domain is set once, by the import of the
\* module, from what the index file is then, and no later step changes it:
\* no retrieve call, and no index file written afterwards, makes an
\* unavailable index available or replaces a loaded one.
C12_LoadedOnce ==
    [][ /\ workout_index.state # "unloaded" => workout_index' = workout_index
        /\ nutrition_index.state # "unloaded" => nutrition_index' = nutrition_index
        /\ (workout_index' # workout_index \/ nutrition_index' # nutrition_index) =>
              /\ workout_index.state = "unloaded" /\ nutrition_index.state = "unloaded"
              /\ workout_index' = load_index_safely(disk_index["workout"])
              /\ nutrition_index' = load_index_safely(disk_index["nutrition"])
              /\ ret = NoCall /\ ret' = ret
        /\ ret' # ret => (workout_index.state # "unloaded" /\ nutrition_index.state # "unloaded")
      ]_vars

\* the index file of a domain was written after the import found none, and a
\* call made after that still found the index unavailable
C12_Witness ==
    /\ Called
    /\ ret.path = "unavailable"
    /\ IndexOf(ret.fn).state = "none"
    /\ disk_index[ret.fn].exists /\ disk_index[ret.fn].valid
    /\ disk_txt[ret.fn].exists

\* the loaded index idx and the text file txt are of one build
Consistent(idx, txt) ==
    /\ txt.exists
    /\ LET lines == readlines(txt.data)
       IN  /\ Len(lines) = Len(idx.vecs)
           /\ \A i \in 1..Len(lines) : Embed(strip(lines[i])) = idx.vecs[i]

\* C13: whenever a domain's index is loaded and its text file is of the same
\* build, every call with top_k at most the number of chunks whose embedding
\* request answers returns exactly top_k strings, the i-th being the line of
\* the text file at the i-th position the search answered.
C13_ExactlyTopKLines ==
    \A d \in Domains :
        (IndexOf(d).state = "loaded" /\ Consistent(IndexOf(d), disk_txt[d])) =>
            LET lines == readlines(disk_txt[d].data)
            IN  \A r \in CallsNow(d) :
                    (r.embed_ok /\ r.top_k <= Len(IndexOf(d).vecs)) =>
                        /\ r.kind = "return"
                        /\ r.path = "search"
                        /\ Len(r.value) = r.top_k
                        /\ \A i \in 1..r.top_k :
                              /\ r.labels[i] \in 0..(Len(lines) - 1)
                              /\ lines[r.labels[i] + 1] = r.value[i] \o <<"\n">>

\* a call with top_k = 2 against a loaded index of two chunks whose text file
\* is of the same build returned two different lines of it
C13_Witness ==
    /\ Called
    /\ ret.path = "search"
    /\ ret.top_k = 2
    /\ Len(IndexOf(ret.fn).vecs) = 2
    /\ Consistent(IndexOf(ret.fn), disk_txt[ret.fn])
    /\ Len(ret.value) = 2
    /\ ret.value[1] # ret.value[2]
    /\ ret \in CallsNow(ret.fn)

\* what a process started over the index file ixf and the text file txf of
\* domain d can return for the probe query q with top_k = k, the embedding
\* request answering
Probe(d, ixf, txf, q, k) ==
    LET idx == load_index_safely(ixf)
    IN  { Call(d, idx, txf, q, k, TRUE, labels).value :
              labels \in Search(idx.vecs, Embed(q), k) }

\* no two vectors are at the same distance of the query
NoTies(q, vecs) ==
    \A i, j \in 1..Len(vecs) : i # j => Dist(Embed(q), vecs[i]) # Dist(Embed(q), vecs[j])

\* the files ixf and txf are the output of a run that embedded every chunk of
\* the folder of domain d
FullBuild(d, ixf, txf) ==
    /\ ixf.exists /\ ixf.valid /\ txf.exists
    /\ Len(ixf.vecs) = Cardinality(ToTry)
    /\ Len(readlines(txf.data)) = Cardinality(ToTry)

\* C14: when a run that embedded every chunk has replaced the output of an
\* earlier run that embedded every chunk of the same folder, a probe query
\* with no two chunks at the same distance gets the same texts in the same
\* order from the new output as from the old one, whatever order the files
\* were listed in by either run.
C14_SameProbeResults ==
    (ipc = "done" /\ log # <<>> /\ Embedded = log
        /\ FullBuild(idom, disk0.index, disk0.txt)
        /\ FullBuild(idom, disk_index[idom], disk_txt[idom])) =>
        \A q \in Queries, k \in 1..MaxTopK :
            NoTies(q, disk_index[idom].vecs) =>
                Probe(idom, disk_index[idom], disk_txt[idom], q, k)
                    = Probe(idom, disk0.index, disk0.txt, q, k)

\* the indexes and text files the other domain may have
OtherIndexes == {load_index_safely(BuiltIndex(b)) : b \in Builds}

OtherTxts == {BuiltTxt(b) : b \in Builds}

\* C16: what a call of retrieve_workouts can return is the same whatever the
\* nutrition index (unavailable, or loaded from any build) and the nutrition
\* text file are, and likewise for retrieve_nutrition and the workout index
\* and text file.
C16_OwnDomainOnly ==
    (workout_index.state # "unloaded" /\ nutrition_index.state # "unloaded") =>
        \A x \in OtherIndexes, y \in OtherTxts :
            /\ retrieve_workouts_of(workout_index, x, [disk_txt EXCEPT !["nutrition"] = y])
                  = retrieve_workouts_of(workout_index, nutrition_index, disk_txt)
            /\ retrieve_nutrition_of(x, nutrition_index, [disk_txt EXCEPT !["workout"] = y])
                  = retrieve_nutrition_of(workout_index, nutrition_index, disk_txt)

\* a call of one domain returned lines of its text file while the index of
\* the other domain was unavailable
C16_Witness ==
    /\ Called
    /\ ret.path = "search"
    /\ \E d \in Domains \ {ret.fn} : IndexOf(d).state = "none"
    /\ ret \in CallsNow(ret.fn)

\* a call of one domain returned lines of its text file while the other
\* domain's index was loaded from another build than its own
C16_WitnessBoth ==
    /\ Called
    /\ ret.path = "search"
    /\ \E d \in Domains \ {ret.fn} :
          IndexOf(d).state = "loaded" /\ IndexOf(d) # IndexOf(ret.fn)

\* C18: whatever the interleaving of the calls of the threads, a call that
\* returned has what the function gives for its arguments and the answers it
\* got from the two services when it runs alone in this state, and the two
\* module-level indexes are as the import loaded them.
C18_AsIfAlone ==
    /\ \A t \in Threads :
          thr[t].pc = "returned" => thr[t].call \in CallsNow(thr[t].call.fn)
    /\ \A d \in Domains :
          IndexOf(d).state # "unloaded" => IndexOf(d) = load_index_safely(disk_index[d])

\* a call returned lines of the text file while a call of the other thread to
\* the same function, with another top_k, was between its search and its
\* lookup
C18_Witness ==
    /\ thr["t1"].pc = "returned"
    /\ thr["t1"].call.path = "search"
    /\ thr["t2"].pc = "pick"
    /\ thr["t2"].call.fn = thr["t1"].call.fn
    /\ thr["t2"].call.top_k # thr["t1"].call.top_k

\* the last call fell back because its embedding request failed
FellBackOnRequest(r) == r.fn # "none" /\ r.path = "except" /\ ~r.embed_ok

\* C22: every call that returned lines of the text file returned, for each
\* real position the search of its in-memory index answered, the text of the
\* chunk whose vector is at that position of the in-memory index, whatever
\* ingest_files did to the files since the index was loaded.
C22_SameBuild ==
    (Called /\ ret.path = "search" /\ ret.kind = "return") =>
        \A i \in 1..Len(ret.labels) :
            ret.labels[i] >= 0 =>
                /\ ret.labels[i] < Len(IndexOf(ret.fn).vecs)
                /\ Embed(ret.value[i]) = IndexOf(ret.fn).vecs[ret.labels[i] + 1]

\* C23: a call with top_k above the number n of vectors of the loaded index
\* returns at most n strings, no two of them from the same line.
C23_OnlyRealNeighbours ==
    (Called /\ ret.path = "search" /\ ret.kind = "return"
        /\ ret.top_k > Len(IndexOf(ret.fn).vecs)) =>
        /\ Len(ret.value) <= Len(IndexOf(ret.fn).vecs)
        /\ \A i, j \in 1..Len(ret.value) : i # j => ret.value[i] # ret.value[j]

\* C24: after a call that fell back because its embedding request failed the
\* index of its domain is still loaded, and when the next call of the same
\* function has its embedding request answered it returns one line of the
\* text file per position the search answered, not the fallback list.
C24_FailureNotSticky ==
    [][ FellBackOnRequest(ret) =>
          /\ IndexOf(ret.fn).state = "loaded"
          /\ \A d \in Domains : d = ret.fn => IndexOf(d)' = IndexOf(d)
          /\ (ret'.fn = ret.fn /\ ret'.embed_ok) =>
                /\ ret'.path = "search"
                /\ ret'.kind = "return"
                /\ ret'.value # FallbackExcept(ret.fn)
                /\ Len(ret'.value) = ret'.top_k
                /\ \A i \in 1..Len(ret'.value) :
                      \E j \in 1..ret'.nlines :
                          readlines(disk_txt[ret.fn].data)[j] = ret'.value[i] \o <<"\n">>
      ]_vars

\* the embedding request of a call against a loaded index failed, the index
\* is still loaded and a call whose request is answered returns lines
C24_Witness ==
    /\ FellBackOnRequest(ret)
    /\ IndexOf(ret.fn).state = "loaded"
    /\ \E r \in CallsNow(ret.fn) :
          r.embed_ok /\ r.path = "search" /\ r.query = ret.query /\ r.top_k = ret.top_k

\* C17: a call makes no embedding request when the index is unavailable and
\* exactly one otherwise; when that one request fails nothing else is done
\* (no second request, no search, no read of the text file) and the call
\* returns the fallback list.
C17_NoRetry ==
    Called =>
        /\ ret.requests <= 1
        /\ ret.requests = (IF ret.path = "unavailable" THEN 0 ELSE 1)
        /\ (ret.path # "unavailable" /\ ~ret.embed_ok) =>
              /\ ret.path = "except"
              /\ ret.kind = "return"
              /\ ret.labels = <<>>
              /\ ret.nlines = -1
              /\ ret.value = FallbackExcept(ret.fn)

\* the embedding request of a call against a loaded index of a complete
\* build failed
C17_Witness ==
    /\ Called
    /\ IndexOf(ret.fn).state = "loaded"
    /\ Consistent(IndexOf(ret.fn), disk_txt[ret.fn])
    /\ ~ret.embed_ok
    /\ ret.requests = 1
    /\ ret.path = "except"

\* C19: a step that changes an index file or a text file is a step of
\* ingest_files on the files of its own domain, a step that changes an
\* in-process index is the import, and a retrieve call changes none of them.
C19_RetrieveWritesNothing ==
    [][ /\ ret' # ret => (disk_index' = disk_index /\ disk_txt' = disk_txt
                          /\ workout_index' = workout_index
                          /\ nutrition_index' = nutrition_index)
        /\ (disk_index' # disk_index \/ disk_txt' # disk_txt) =>
              /\ ipc \in {"files", "write_txt"}
              /\ ipc' \in {"write_txt", "done"}
              /\ ret' = ret
              /\ \A d \in Domains \ {idom} :
                    disk_index'[d] = disk_index[d] /\ disk_txt'[d] = disk_txt[d]
      ]_vars

\* a call that returned lines of the text file, with both files and the
\* loaded index as the build left them
C19_Witness ==
    /\ Called
    /\ ret.path = "search"
    /\ ret.kind = "return"
    /\ IndexOf(ret.fn) = load_index_safely(disk_index[ret.fn])
    /\ Consistent(IndexOf(ret.fn), disk_txt[ret.fn])
    /\ ret.nlines = Len(IndexOf(ret.fn).vecs)

\* a call that fell back on a failed request, the files being as built
C19_WitnessFallback ==
    /\ Called
    /\ ret.path = "except"
    /\ ~ret.embed_ok
    /\ IndexOf(ret.fn) = load_index_safely(disk_index[ret.fn])
    /\ disk_txt[ret.fn].exists

----------------------------------------------------------------------------
(* Claims about the workout-plan storage *)

\* C25: in the fallback store every user's plan list holds at most 10 plans,
\* and they are the latest (at most 10) of the plans stored for the user since
\* the last "update", that one included, oldest first: after an "update" the
\* list is the new plan alone, after an "add" the new plan is the last of the
\* list behind the plans kept.
C25_LatestTenKept ==
    ~supabase =>
        \A u \in Users :
            LET plans == fallback_profiles[u].workout_plans
                kept == fb_kept[u]
                n == Len(kept)
                m == IF n > 10 THEN 10 ELSE n
            IN  /\ Len(plans) <= 10
                /\ plans = [i \in 1..m |-> kept[n - m + i]]
                /\ \A i, j \in 1..Len(plans) : i < j => plans[i].created_at < plans[j].created_at
                /\ (ep.user = u /\ ep.action = "update") =>
                      /\ ep.success
                      /\ Len(plans) = 1
                      /\ plans[1] = [plan |-> plans[1].plan, created_at |-> now - 1,
                                     action |-> "update"]
                /\ (ep.user = u /\ ep.action = "add") =>
                      /\ ep.success
                      /\ plans[Len(plans)].created_at = now - 1
                      /\ plans[Len(plans)].action = "add"
                      /\ \A i \in 1..(Len(plans) - 1) : plans[i].created_at < now - 1

\* an "add" for a user whose list held 10 plans: the oldest plan is gone, the
\* list holds 10 plans and the new one is the last
C25_Witness ==
    /\ ~supabase
    /\ ep.user = "u1"
    /\ ep.action = "add"
    /\ Len(fb_kept["u1"]) = 11
    /\ Len(fallback_profiles["u1"].workout_plans) = 10
    /\ fallback_profiles["u1"].workout_plans[1] = fb_kept["u1"][2]
    /\ fallback_profiles["u1"].workout_plans[10].created_at = now - 1

\* an "update" for a user whose list held 10 plans left the new plan alone
C25_WitnessUpdate ==
    /\ ~supabase
    /\ ep.user = "u1"
    /\ ep.action = "update"
    /\ now = 11
    /\ Len(fallback_profiles["u1"].workout_plans) = 1
    /\ fallback_file.state = "json"
    /\ fallback_file.data = fallback_profiles

\* C26: when store_workout_plan_in_supabase with action "update" returned
\* False, every plan the user had in the table before the call is still there.
C26_UpdateAllOrNothing ==
    (sb.user # "none" /\ sb.action = "update" /\ ~sb.result) =>
        \A i \in 1..Len(sb.before) :
            \E j \in 1..Len(workout_plans) : workout_plans[j] = sb.before[i]

\* what a returned call of get_user_profile / check_existing_workout_plans
\* has done, and what a call under way has done so far
C27_Returned ==
    /\ rq.queries <= 3
    /\ rq.queries \in {rq.failed, rq.failed + 1}
    /\ rq.pc \in {"idle", "try", "sleep", "returned"}
    /\ (rq.pc = "returned" /\ ~supabase) => (rq.queries = 0 /\ rq.result = <<>>)
    /\ (rq.pc = "returned" /\ supabase) =>
          IF rq.queries = rq.failed
          THEN rq.queries = 3 /\ rq.result = <<>>
          ELSE LET rows == RowsOf(IF rq.fn = "get_user_profile"
                                  THEN user_profiles ELSE workout_plans, rq.user)
               IN  rq.result = IF rows = <<>> THEN <<>>
                               ELSE IF rq.fn = "get_user_profile" THEN <<rows[1]>>
                               ELSE rows

\* C27: a call of get_user_profile or check_existing_workout_plans returns:
\* it makes no query without a client and at most 3 otherwise, returns what
\* the first answered query found (the profile, the plans, or the empty
\* value) without a further query, and the empty value after 3 queries that
\* raised.
C27_BoundedRetry ==
    /\ []C27_Returned
    /\ (rq.pc \in {"try", "sleep"}) ~> (rq.pc = "returned")

\* a call returned the user's two plans from its third query, after two
\* queries that raised
C27_Witness ==
    /\ supabase
    /\ rq.pc = "returned"
    /\ rq.fn = "check_existing_workout_plans"
    /\ rq.failed = 2
    /\ rq.queries = 3
    /\ Len(rq.result) = 2

\* a call returned the empty value after three queries that raised, the
\* profile being in the table
C27_WitnessGaveUp ==
    /\ supabase
    /\ rq.pc = "returned"
    /\ rq.fn = "get_user_profile"
    /\ rq.user = "u1"
    /\ rq.failed = 3
    /\ rq.result = <<>>


----------------------------------------------------------------------------
(* Claims about ResponseCache *)

\* the last response stored for what the message of the last call says
LastPut == cache_put[Said(cr.message)]

C28_WitnessExpired ==
    /\ cr.op = "get_cached_response"
    /\ LastPut.stored
    /\ ~LastPut.lost
    /\ cr.at > LastPut.at + CacheDuration
    /\ cr.returned = "None"
    /\ cache_files[_get_cache_key(cr.message)].state = "absent"

----------------------------------------------------------------------------
(* Claims about chunk_text *)

CeilDiv(n, d) == (n + d - 1) \div d

\* C10: chunk_text makes ceil(n/500) chunks of a text of n words; each chunk but
\* the last holds 500 words, the last between 1 and 500; the words of the
\* chunks, in order, are the words of the text.
C10_ChunkText ==
    ct_pc = "done" =>
        LET m == Len(ct_out)
            ws == [k \in 1..m |-> split(ct_out[k])]
        IN  /\ m = CeilDiv(ct_n, 500)
            /\ \A k \in 1..m :
                /\ k < m => Len(ws[k]) = 500
                /\ Len(ws[k]) \in 1..500
            /\ Concat(ws) = WordsOf(ct_n)
            /\ (ct_n = 500 => m = 1)
            /\ (ct_n = 501 => m = 2 /\ Len(ws[1]) = 500 /\ Len(ws[2]) = 1)
            /\ (ct_n = 0 => ct_out = <<>>)

\* 501 words separated by blanks and newlines were split into 500 + 1
C10_Witness ==
    /\ ct_pc = "done"
    /\ ct_n = 501
    /\ ct_style = "mixed"
    /\ Len(ct_out) = 2
    /\ ct_out[2] = Word(501)

====
